---- MODULE Spec2Model ----
(***************************************************************************)
(* geo2coverage.py: ERDDAP tabledap data served as CoverageJSON.           *)
(*                                                                         *)
(*   dataframe_to_covjson   the coverage assembler (a pure function)       *)
(*   get_value_from_meta    the metadata lookup (a pure function)          *)
(*   ErddapDownloader       get_dataset_dict (the cached catalog) and      *)
(*                          get_data (fetch, resolve, assemble)            *)
(*                                                                         *)
(* Python values are modelled as follows.  A str is a TLA+ string, a       *)
(* number of a data table is an integer, a list is a sequence and a dict   *)
(* is the sequence of its <<key, value>> pairs in insertion order.  The    *)
(* values that flow through get_value_from_meta carry their Python type:    *)
(* [kind |-> "str" | "none", s |-> text].                                  *)
(* A call either returns a value or raises:                                *)
(* [kind |-> "return" | "raise", value |-> ..., exc |-> ...].              *)
(***************************************************************************)
EXTENDS Integers, Sequences, FiniteSets, TLC

VARIABLES
    \* ---- dataframe_to_covjson called on its own
    cov_pc,         \* "start" | "assembled" | "done"
    cov_df,         \* the df argument
    cov_metadata,   \* the metadata argument
    cov_out,        \* outcome of dataframe_to_covjson(df, metadata)
    cov_out_dedup,  \* outcome of dataframe_to_covjson(df.drop_duplicates(["time"]), metadata)
    \* ---- get_value_from_meta called on its own
    gv_pc,          \* "start" | "done"
    gv_df,          \* the df argument: the metadata frame
    gv_varname,     \* the varname argument
    gv_attr_name,   \* the attr_name argument
    gv_alternative, \* the alternative argument
    gv_out,         \* outcome of the call
    \* ---- ErddapDownloader.get_data
    gd_pc,          \* the line get_data is at
    data_resp,      \* what the tabledap endpoint answers
    meta_resp,      \* what the info endpoint answers
    urn_parts,      \* the segments the sdn_parameter_urn of TEMP was written from
    resp,           \* the local resp
    data,           \* the local data, once a DataFrame
    meta,           \* the local meta, once a DataFrame
    names_and_units,\* the local names_and_units
    gd_todo,        \* the columns the loop of line 144 has yet to visit
    gd_calls,       \* the functions get_data has called so far
    gd_out,         \* outcome of get_data
    \* ---- ErddapDownloader.get_dataset_dict, called by the request threads
    now,            \* time.time()
    ticks,          \* how often the clock has advanced
    upstream,       \* the "Dataset ID" column of the listing the server answers with
    dataset_dict,   \* self.dataset_dict
    dataset_dict_t, \* self.dataset_dict_t
    th_pc,          \* per thread: the line it is at
    th_df,          \* per thread: the local df
    th_ret,         \* per thread: what its last call returned
    refreshed_at    \* when self.dataset_dict was last rebuilt (None: never)

cov_vars == <<cov_pc, cov_df, cov_metadata, cov_out, cov_out_dedup>>

gv_vars == <<gv_pc, gv_df, gv_varname, gv_attr_name, gv_alternative, gv_out>>

gd_vars == <<gd_pc, data_resp, meta_resp, urn_parts, resp, data, meta, names_and_units,
             gd_todo, gd_calls, gd_out>>

cat_vars == <<now, ticks, upstream, dataset_dict, dataset_dict_t, th_pc, th_df,
              th_ret, refreshed_at>>

vars == <<cov_vars, gv_vars, gd_vars, cat_vars>>

(***************************************************************************)
(* Bounds of the model                                                     *)
(***************************************************************************)
MaxRows == 3

MaxMetaRows == 2

MaxFetchRows == 1

MaxUrnLen == 7

MaxListing == 2

MaxTicks == 2

\* self.cache_time, line 100
cache_time == 3600

(***************************************************************************)
(* Python values                                                           *)
(***************************************************************************)
None == [kind |-> "none", s |-> "None"]

PyStr(text) == [kind |-> "str", s |-> text]

\* str(x): a str is returned as it is, anything else becomes the str of its text
str(x) == [kind |-> "str", s |-> x.s]

\* bool(x), as in `if definition:`
Truthy(x) ==
    CASE x.kind = "str" -> x.s # ""
      [] OTHER -> FALSE

Return(v) == [kind |-> "return", value |-> v, exc |-> "", arg |-> ""]

Raise(e, a) == [kind |-> "raise", value |-> <<>>, exc |-> e, arg |-> a]

NotCalled == [kind |-> "none", value |-> <<>>, exc |-> "", arg |-> ""]

NoFrame == [columns |-> <<>>, rows |-> <<>>]

(***************************************************************************)
(* Sequences, dicts and data frames                                        *)
(***************************************************************************)
Range(s) == {s[i] : i \in 1..Len(s)}

\* the position of name in columns (0 when absent)
ColIndex(columns, name) ==
    IF name \in Range(columns)
    THEN CHOOSE i \in 1..Len(columns) :
            columns[i] = name /\ \A j \in 1..(i - 1) : columns[j] # name
    ELSE 0

\* the positions of the columns that bear the label name
Positions(columns, name) == {i \in 1..Len(columns) : columns[i] = name}

\* the cells of the column at position ci, row by row
ColumnAt(df, ci) == [i \in 1..Len(df.rows) |-> df.rows[i][ci]]

\* df[name].to_list() of a frame in which one column bears the label name
Column(df, name) == ColumnAt(df, ColIndex(df.columns, name))

\* d.keys() of a dict, in insertion order
Keys(d) == [i \in 1..Len(d) |-> d[i][1]]

\* d[k]
Get(d, k) == d[ColIndex(Keys(d), k)][2]

\* d[k] = v: a key already there keeps its place and takes the new value, a
\* new key goes last
SetItem(d, k, v) ==
    IF k \in Range(Keys(d))
    THEN [d EXCEPT ![ColIndex(Keys(d), k)] = <<k, v>>]
    ELSE Append(d, <<k, v>>)

\* [f(x) for x in s if Test(x)]: the elements of s that pass, in order
RECURSIVE Filter(_, _)
Filter(s, keep) ==
    IF s = <<>> THEN <<>>
    ELSE IF Head(s) \in keep THEN <<Head(s)>> \o Filter(Tail(s), keep)
    ELSE Filter(Tail(s), keep)

RECURSIVE Sum(_)
Sum(s) == IF s = <<>> THEN 0 ELSE Head(s) + Sum(Tail(s))

RECURSIVE Gcd(_, _)
Gcd(a, b) == IF b = 0 THEN a ELSE Gcd(b, a % b)

NaN == <<0, 0>>

\* Series.mean(): sum / count as the exact quotient <<numerator, denominator>>
\* in lowest terms (equal quotients are equal floats); NaN for an empty Series
Mean(s) ==
    IF Len(s) = 0 THEN NaN
    ELSE LET g == Gcd(Sum(s), Len(s)) IN <<Sum(s) \div g, Len(s) \div g>>

\* df[name].mean().  When one column bears the label, df[name] is a Series and
\* its mean a number.  When several do, df[name] is a DataFrame and its mean()
\* the Series of the means of these columns, indexed by the label.
MeanOf(df, name) ==
    LET at == Positions(df.columns, name)
        nth(k) == CHOOSE i \in at : Cardinality({j \in at : j < i}) = k - 1
    IN IF Cardinality(at) = 1 THEN Mean(Column(df, name))
       ELSE [index |-> [k \in 1..Cardinality(at) |-> name],
             values |-> [k \in 1..Cardinality(at) |-> Mean(ColumnAt(df, nth(k)))]]

\* the mean of every row of the table, duplicates included
MeanOfUndeduplicated(df0, df, name) == MeanOf(df0, name)

\* df[name].mean() on the frame the function works on (line 21 rebinds df)
ColumnMean(df0, df, name) == MeanOf(df, name)

\* rows i and j agree on every column of tis
SameKey(rows, tis, i, j) == \A ti \in tis : rows[j][ti] = rows[i][ti]

\* keep == "last"
KeepLast(rows, tis, i) ==
    \A j \in (i + 1)..Len(rows) : ~SameKey(rows, tis, i, j)

\* keep == "first", the default of DataFrame.drop_duplicates
KeepFirst(rows, tis, i) ==
    \A j \in 1..(i - 1) : ~SameKey(rows, tis, i, j)

\* the rows kept by drop_duplicates(subset=["time"]), in their order; tis are
\* the positions of the columns labelled "time": every one of them is compared
DedupRows(rows, tis) ==
    LET F[i \in 0..Len(rows)] ==
            IF i = 0 THEN <<>>
            ELSE IF KeepFirst(rows, tis, i) THEN Append(F[i - 1], rows[i])
            ELSE F[i - 1]
    IN F[Len(rows)]

\* df.drop_duplicates(subset=["time"]): a frame that is empty (no rows, or no
\* columns) comes back as it is, before subset is looked at; otherwise
\* KeyError when there is no such column
drop_duplicates(df) ==
    IF df.rows = <<>> \/ df.columns = <<>> THEN Return(df)
    ELSE IF "time" \notin Range(df.columns) THEN Raise("KeyError", "time")
    ELSE Return([df EXCEPT !.rows = DedupRows(df.rows, Positions(df.columns, "time"))])

\* len(df) read before line 21 rebinds df
LenBeforeDedup(df0, df) == Len(df0.rows)

\* len(df) at line 50
FrameLen(df0, df) == Len(df.rows)

Positional == {"time", "latitude", "longitude"}

(***************************************************************************)
(* dataframe_to_covjson(df, metadata), lines 20-89                         *)
(***************************************************************************)
\* the keys taken in the opposite order
ParamNamesReversed(metadata) ==
    LET names == Filter(Keys(metadata), Range(Keys(metadata)) \ Positional)
    IN [i \in 1..Len(names) |-> names[Len(names) + 1 - i]]

\* line 25
ParamNames(metadata) ==
    Filter(Keys(metadata), Range(Keys(metadata)) \ Positional)

\* lines 35-44
Parameter(m) ==
    [type |-> "Parameter",
     description |-> [en |-> m.name],
     unit |-> [label |-> [en |-> m.units], symbol |-> m.units],
     observedProperty |-> [id |-> m.definition, label |-> [en |-> m.name]]]

\* lines 46-52
NdArray(df0, df, name) ==
    [type |-> "NdArray",
     dataType |-> "float",
     axisNames |-> <<"t">>,
     shape |-> <<FrameLen(df0, df)>>,
     values |-> Column(df, name)]

\* lines 64-79
Referencing ==
    << [coordinates |-> <<"x", "y">>,
        system |-> [type |-> "GeographicCRS",
                    id |-> "http://www.opengis.net/def/crs/OGC/1.3/CRS84"]],
       [coordinates |-> <<"t">>,
        system |-> [type |-> "TemporalRS", calendar |-> "Gregorian"]] >>

\* lines 54-87, with df the deduplicated frame
Covjson(df0, df, metadata) ==
    LET names == ParamNames(metadata)
        lat == ColumnMean(df0, df, "latitude")
        lon == ColumnMean(df0, df, "longitude")
    IN [type |-> "Coverage",
        domain |-> [type |-> "Domain",
                    domainType |-> "PointSeries",
                    axes |-> [t |-> [values |-> Column(df, "time")],
                              x |-> [values |-> <<lon>>],
                              y |-> [values |-> <<lat>>]],
                    referencing |-> Referencing],
        parameters |-> [i \in 1..Len(names) |->
                            <<names[i], Parameter(Get(metadata, names[i]))>>],
        ranges |-> [i \in 1..Len(names) |->
                            <<names[i], NdArray(df0, df, names[i])>>],
        location |-> [type |-> "Point", coordinates |-> <<lon, lat>>]]

\* the reads of the frame after line 21, in the order the function makes them:
\* df["latitude"].mean() (line 27), df["longitude"].mean() (28),
\* df[name].to_list() for each parameter (51), df["time"].to_list() (60)
Reads(metadata) ==
    << <<"latitude", "mean">>, <<"longitude", "mean">> >>
    \o [i \in 1..Len(ParamNames(metadata)) |-> <<ParamNames(metadata)[i], "to_list">>]
    \o << <<"time", "to_list">> >>

\* what df[label].method() raises: KeyError when no column bears the label;
\* AttributeError when several do and to_list is asked of the DataFrame that
\* df[label] then is (a DataFrame has mean, and no to_list)
ReadRaises(df, read) ==
    IF read[1] \notin Range(df.columns) THEN Raise("KeyError", read[1])
    ELSE IF read[2] = "to_list" /\ Cardinality(Positions(df.columns, read[1])) > 1
    THEN Raise("AttributeError", "to_list")
    ELSE NotCalled

\* the first of the reads that raises, NotCalled when none does
RECURSIVE FirstRaise(_, _)
FirstRaise(df, reads) ==
    IF reads = <<>> THEN NotCalled
    ELSE IF ReadRaises(df, Head(reads)).kind = "raise" THEN ReadRaises(df, Head(reads))
    ELSE FirstRaise(df, Tail(reads))

dataframe_to_covjson(df0, metadata) ==
    IF drop_duplicates(df0).kind = "raise" THEN drop_duplicates(df0)
    ELSE IF FirstRaise(drop_duplicates(df0).value, Reads(metadata)).kind = "raise"
    THEN FirstRaise(drop_duplicates(df0).value, Reads(metadata))
    ELSE Return(Covjson(df0, drop_duplicates(df0).value, metadata))

(***************************************************************************)
(* get_value_from_meta(df, varname, attr_name, alternative), lines 136-142 *)
(***************************************************************************)
MetaColumns == <<"Variable Name", "Attribute Name", "Value">>

\* df[df[column] == value]: the rows whose cell equals value, in order
RECURSIVE RowsWhere(_, _, _)
RowsWhere(rows, ci, value) ==
    IF rows = <<>> THEN <<>>
    ELSE IF Head(rows)[ci] = value
         THEN <<Head(rows)>> \o RowsWhere(Tail(rows), ci, value)
         ELSE RowsWhere(Tail(rows), ci, value)

\* returns "" whatever the caller supplied
EmptyDefault(alternative) == PyStr("")

\* line 140
DefaultValue(alternative) == str(alternative)

\* line 142: row["Value"].values[0]
FirstValue(row, vi) == row[1][vi]

get_value_from_meta(df, varname, attr_name, alternative) ==
    IF "Variable Name" \notin Range(df.columns) THEN Raise("KeyError", "Variable Name")
    ELSE IF "Attribute Name" \notin Range(df.columns) THEN Raise("KeyError", "Attribute Name")
    ELSE LET df1 == RowsWhere(df.rows, ColIndex(df.columns, "Variable Name"), varname)
             row == RowsWhere(df1, ColIndex(df.columns, "Attribute Name"), attr_name)
         IN IF row = <<>> THEN Return(DefaultValue(alternative))
            ELSE IF "Value" \notin Range(df.columns) THEN Raise("KeyError", "Value")
            ELSE Return(FirstValue(row, ColIndex(df.columns, "Value")))

(***************************************************************************)
(* ErddapDownloader.get_data(dataset_id, params), lines 111-164            *)
(***************************************************************************)
\* s.split(":")
RECURSIVE Split(_)
Split(text) ==
    IF text = "" THEN <<"">>
    ELSE IF Head(text) = ":" THEN <<"">> \o Split(Tail(text))
    ELSE LET rest == Split(Tail(text))
         IN <<Head(text) \o rest[1]>> \o Tail(rest)

\* takes the first and the third segment
VocabUriShifted(parts) ==
    "http://vocab.nerc.ac.uk/collection/" \o parts[1] \o "/current/" \o parts[3] \o "/"

\* lines 147-148: _, vocab, _, term = parts
VocabUri(parts) ==
    "http://vocab.nerc.ac.uk/collection/" \o parts[2] \o "/current/" \o parts[4] \o "/"

\* lines 145-148
ResolveDefinition(df, c) ==
    LET found == get_value_from_meta(df, c, "sdn_parameter_urn", PyStr(""))
    IN IF found.kind = "raise" THEN found
       ELSE IF ~Truthy(found.value) THEN found
       ELSE IF found.value.kind # "str" THEN Raise("AttributeError", "split")
       ELSE IF Len(Split(found.value.s)) # 4 THEN Raise("ValueError", "unpack")
       ELSE Return(PyStr(VocabUri(Split(found.value.s))))

\* lines 150-154, given the definition: the lookup of line 151, then that of
\* line 152; what either raises leaves get_data
NamesAndUnits(df, c, definition) ==
    LET name == get_value_from_meta(df, c, "standard_name", PyStr(c))
        units == get_value_from_meta(df, c, "units", PyStr(""))
    IN IF name.kind = "raise" THEN name
       ELSE IF units.kind = "raise" THEN units
       ELSE Return([name |-> name.value, units |-> units.value,
                    definition |-> definition])

\* a requests.Response: status_code, text and what json() finds in the text
Response(status_code, text, json) ==
    [status_code |-> status_code, text |-> text, json |-> json]

NoResponse == Response(0, "", [kind |-> "none", columnNames |-> <<>>, rows |-> <<>>])

\* a body that is no JSON: json() raises
NotJson == [kind |-> "invalid", columnNames |-> <<>>, rows |-> <<>>]

\* a JSON body without "table"
NoTable == [kind |-> "no_table", columnNames |-> <<>>, rows |-> <<>>]

\* {"table": {"columnNames": [...], "rows": [...]}}
Table(df) == [kind |-> "table", columnNames |-> df.columns, rows |-> df.rows]

\* lines 117-121 and 127-130: resp.json(), ["table"], pd.DataFrame
ParseTable(r) ==
    IF r.json.kind = "invalid" THEN Raise("JSONDecodeError", "")
    ELSE IF r.json.kind = "no_table" THEN Raise("KeyError", "table")
    ELSE Return([columns |-> r.json.columnNames, rows |-> r.json.rows])

(***************************************************************************)
(* The inputs of the assembler                                             *)
(***************************************************************************)
Times == {"t1", "t2"}

Latitudes == {0, 1}

Longitudes == {2}

Temps == {3, 4}

Salts == {5}

Layouts ==
    { <<"time", "latitude", "longitude", "TEMP">>,
      <<"time", "TEMP", "latitude", "longitude", "PSAL">>,
      <<"latitude", "longitude", "TEMP">> }

\* tables that repeat a column label: a parameter, time, latitude
RepeatingLayouts ==
    { <<"time", "latitude", "longitude", "TEMP", "TEMP">>,
      <<"time", "time", "latitude", "longitude", "TEMP", "PSAL">>,
      <<"time", "latitude", "latitude", "longitude", "TEMP">> }

\* the rows such a table is filled from
SampleRows(columns) ==
    CASE columns = <<"time", "latitude", "longitude", "TEMP", "TEMP">> ->
            { <<"t1", 0, 2, 3, 4>>, <<"t2", 1, 2, 4, 3>> }
      [] columns = <<"time", "time", "latitude", "longitude", "TEMP", "PSAL">> ->
            { <<"t1", "t1", 0, 2, 3, 5>>, <<"t1", "t2", 1, 2, 4, 5>> }
      [] OTHER ->
            { <<"t1", 0, 1, 2, 3>>, <<"t1", 1, 1, 2, 4>>, <<"t2", 1, 0, 2, 3>> }

ColumnValues(c) ==
    CASE c = "time" -> Times
      [] c = "latitude" -> Latitudes
      [] c = "longitude" -> Longitudes
      [] c = "TEMP" -> Temps
      [] OTHER -> Salts

\* the rows a table with these columns can have
RECURSIVE RowsOf(_)
RowsOf(columns) ==
    IF columns = <<>> THEN {<<>>}
    ELSE {<<v>> \o r : v \in ColumnValues(Head(columns)), r \in RowsOf(Tail(columns))}

SeqsUpTo(S, n) == UNION {[1..k -> S] : k \in 0..n}

\* pd.DataFrame(rows, columns=columns), lines 121 and 130
DataFrames(n) ==
    UNION {{[columns |-> cols, rows |-> rows] : rows \in SeqsUpTo(RowsOf(cols), n)} :
              cols \in Layouts}
    \cup
    UNION {{[columns |-> cols, rows |-> rows] : rows \in SeqsUpTo(SampleRows(cols), n)} :
              cols \in RepeatingLayouts}

\* the metadata dict get_data builds for a frame (lines 144-154): one entry a
\* column label, stored by key
MetadataOf(df, defn) ==
    LET F[i \in 0..Len(df.columns)] ==
            IF i = 0 THEN <<>>
            ELSE SetItem(F[i - 1], df.columns[i],
                         [name |-> PyStr(df.columns[i]), units |-> PyStr(""),
                          definition |-> defn])
    IN F[Len(df.columns)]

Definitions == {PyStr(""), PyStr("http://vocab.nerc.ac.uk/collection/P01/current/TEMPPR01/")}

(***************************************************************************)
(* The inputs of the lookup                                                *)
(***************************************************************************)
Variables == {"TEMP", "PSAL"}

Attributes == {"units", "standard_name"}

Values == {PyStr("degree_Celsius"), PyStr("sea_water_temperature")}

\* what get_data passes as alternative: "" (lines 145, 152) or the column name
\* (line 151)
Alternatives == {PyStr(""), PyStr("TEMP"), PyStr("PSAL")}

MetaRowsOf(variables, attributes, values) ==
    {<<v, a, x>> : v \in variables, a \in attributes, x \in values}

MetaFrames(n) ==
    {[columns |-> MetaColumns, rows |-> rows] :
        rows \in SeqsUpTo(MetaRowsOf(Variables, Attributes, Values), n)}

\* the parts of the state a specification does not run
CovIdle ==
    /\ cov_pc = "off"
    /\ cov_df = NoFrame
    /\ cov_metadata = <<>>
    /\ cov_out = NotCalled
    /\ cov_out_dedup = NotCalled

GvIdle ==
    /\ gv_pc = "off"
    /\ gv_df = NoFrame
    /\ gv_varname = ""
    /\ gv_attr_name = ""
    /\ gv_alternative = None
    /\ gv_out = NotCalled

GdIdle ==
    /\ gd_pc = "off"
    /\ data_resp = NoResponse
    /\ meta_resp = NoResponse
    /\ urn_parts = <<>>
    /\ resp = NoResponse
    /\ data = NoFrame
    /\ meta = NoFrame
    /\ names_and_units = <<>>
    /\ gd_todo = <<>>
    /\ gd_calls = {}
    /\ gd_out = NotCalled

CatIdle ==
    /\ now = 0
    /\ ticks = 0
    /\ upstream = <<>>
    /\ dataset_dict = <<>>
    /\ dataset_dict_t = 0
    /\ th_pc = <<>>
    /\ th_df = <<>>
    /\ th_ret = <<>>
    /\ refreshed_at = 0

CovInit ==
    /\ cov_pc = "start"
    /\ cov_df \in DataFrames(MaxRows)
    /\ \E defn \in Definitions : cov_metadata = MetadataOf(cov_df, defn)
    /\ cov_out = NotCalled
    /\ cov_out_dedup = NotCalled
    /\ GvIdle
    /\ GdIdle
    /\ CatIdle

\* dataframe_to_covjson(df, metadata)
Assemble ==
    /\ cov_pc = "start"
    /\ cov_out' = dataframe_to_covjson(cov_df, cov_metadata)
    /\ cov_pc' = "assembled"
    /\ UNCHANGED <<cov_df, cov_metadata, cov_out_dedup, gv_vars, gd_vars, cat_vars>>

\* dataframe_to_covjson(df.drop_duplicates(subset=["time"]), metadata)
AssembleDeduplicated ==
    /\ cov_pc = "assembled"
    /\ cov_out_dedup' =
          IF drop_duplicates(cov_df).kind = "raise" THEN drop_duplicates(cov_df)
          ELSE dataframe_to_covjson(drop_duplicates(cov_df).value, cov_metadata)
    /\ cov_pc' = "done"
    /\ UNCHANGED <<cov_df, cov_metadata, cov_out, gv_vars, gd_vars, cat_vars>>

CovNext == Assemble \/ AssembleDeduplicated

CovSpec == CovInit /\ [][CovNext]_vars

(***************************************************************************)
(* get_value_from_meta applied to a metadata frame                         *)
(***************************************************************************)
LookupInit ==
    /\ gv_pc = "start"
    /\ gv_df \in MetaFrames(MaxMetaRows)
    /\ gv_varname \in Variables
    /\ gv_attr_name \in Attributes
    /\ gv_alternative \in Alternatives
    /\ gv_out = NotCalled
    /\ CovIdle
    /\ GdIdle
    /\ CatIdle

Lookup ==
    /\ gv_pc = "start"
    /\ gv_out' = get_value_from_meta(gv_df, gv_varname, gv_attr_name, gv_alternative)
    /\ gv_pc' = "done"
    /\ UNCHANGED <<gv_df, gv_varname, gv_attr_name, gv_alternative, cov_vars, gd_vars, cat_vars>>

LookupNext == Lookup

LookupSpec == LookupInit /\ [][LookupNext]_vars

(***************************************************************************)
(* get_data on what the two endpoints answer                               *)
(***************************************************************************)
DataStatuses == {200, 404, 500}

MetaStatuses == {200, 404}

\* the body of a tabledap answer: a table, or an error text that is no JSON,
\* or JSON without a table
DataBodies(n) ==
    {<<"tabledap: table", Table(df)>> : df \in DataFrames(n)} \cup
    {<<"tabledap: Error {message=Query error}", NotJson>>,
     <<"tabledap: {error: Query error}", NoTable>>}

DataResponses(n) ==
    {Response(c, b[1], b[2]) : c \in DataStatuses, b \in DataBodies(n)}

\* sdn_parameter_urn values: none, empty, four segments, two segments
UrnSamples == {"", "SDN:P01::TEMPPR01", "P01:TEMPPR01"}

\* a metadata table: at most one urn row for TEMP, one for PSAL, a units row
SampleMetaFrames ==
    {[columns |-> MetaColumns, rows |-> t \o p \o u] :
        t \in {<<>>} \cup {<< <<"TEMP", "sdn_parameter_urn", PyStr(x)>> >> : x \in UrnSamples},
        p \in {<<>>, << <<"PSAL", "sdn_parameter_urn", PyStr("SDN:P01::PSLTZZ01")>> >>},
        u \in {<<>>, << <<"TEMP", "units", PyStr("degree_Celsius")>> >>}}

MetaResponses(frames) ==
    {Response(c, b[1], b[2]) :
        c \in MetaStatuses,
        b \in {<<"info: table", Table(df)>> : df \in frames} \cup
              {<<"info: Error {message=Unknown dataset}", NotJson>>}}

GdStart ==
    /\ gd_pc = "fetch_data"
    /\ resp = NoResponse
    /\ data = NoFrame
    /\ meta = NoFrame
    /\ names_and_units = <<>>
    /\ gd_todo = <<>>
    /\ gd_calls = {}
    /\ gd_out = NotCalled
    /\ CovIdle
    /\ GvIdle
    /\ CatIdle

GetDataInit ==
    /\ data_resp \in DataResponses(MaxFetchRows)
    /\ meta_resp \in MetaResponses(SampleMetaFrames)
    /\ urn_parts = <<>>
    /\ GdStart

\* strings without a colon, of at most n characters
RECURSIVE Segments(_)
Segments(n) ==
    IF n <= 0 THEN {""}
    ELSE Segments(n - 1) \cup
         {x \o ch : x \in {y \in Segments(n - 1) : Len(y) = n - 1}, ch \in {"a", "b"}}

\* the lists of segments that make a urn of at most n characters
RECURSIVE UrnParts(_)
UrnParts(n) ==
    {<<x>> : x \in Segments(n)} \cup
    UNION {{<<x>> \o rest : rest \in UrnParts(n - Len(x) - 1)} :
              x \in {y \in Segments(n) : Len(y) < n}}

\* ":".join(parts)
RECURSIVE Join(_)
Join(parts) ==
    IF Len(parts) = 1 THEN parts[1]
    ELSE parts[1] \o ":" \o Join(Tail(parts))

\* one row of data; the info endpoint gives TEMP any urn of at most MaxUrnLen characters
UrnInit ==
    /\ urn_parts \in UrnParts(MaxUrnLen)
    /\ data_resp =
          Response(200, "tabledap: table",
                   Table([columns |-> <<"time", "latitude", "longitude", "TEMP">>,
                          rows |-> << <<"t1", 1, 2, 3>> >>]))
    /\ meta_resp =
          Response(200, "info: table",
                   Table([columns |-> MetaColumns,
                          rows |-> << <<"TEMP", "sdn_parameter_urn",
                                        PyStr(Join(urn_parts))>> >>]))
    /\ GdStart

gd_rest == <<data_resp, meta_resp, urn_parts, cov_vars, gv_vars, cat_vars>>

\* line 116
FetchData ==
    /\ gd_pc = "fetch_data"
    /\ resp' = data_resp
    /\ gd_pc' = "parse_data"
    /\ UNCHANGED <<data, meta, names_and_units, gd_todo, gd_calls, gd_out, gd_rest>>

\* lines 117-121
ParseData ==
    /\ gd_pc = "parse_data"
    /\ IF ParseTable(resp).kind = "raise"
       THEN /\ gd_out' = ParseTable(resp)
            /\ gd_pc' = "done"
            /\ UNCHANGED data
       ELSE /\ data' = ParseTable(resp).value
            /\ gd_pc' = "fetch_meta"
            /\ UNCHANGED gd_out
    /\ UNCHANGED <<resp, meta, names_and_units, gd_todo, gd_calls, gd_rest>>

\* line 126: resp is bound anew
FetchMeta ==
    /\ gd_pc = "fetch_meta"
    /\ resp' = meta_resp
    /\ gd_pc' = "parse_meta"
    /\ UNCHANGED <<data, meta, names_and_units, gd_todo, gd_calls, gd_out, gd_rest>>

\* lines 127-134, up to the head of the loop of line 144
ParseMeta ==
    /\ gd_pc = "parse_meta"
    /\ IF ParseTable(resp).kind = "raise"
       THEN /\ gd_out' = ParseTable(resp)
            /\ gd_pc' = "done"
            /\ UNCHANGED <<meta, gd_todo>>
       ELSE /\ meta' = ParseTable(resp).value
            /\ gd_todo' = data.columns
            /\ gd_pc' = IF data.columns = <<>> THEN "check_status" ELSE "resolve"
            /\ UNCHANGED gd_out
    /\ UNCHANGED <<resp, data, names_and_units, gd_calls, gd_rest>>

\* lines 144-154: one turn of the loop, for column c = Head(gd_todo)
ResolveColumn ==
    /\ gd_pc = "resolve"
    /\ gd_todo # <<>>
    /\ gd_calls' = gd_calls \cup {"get_value_from_meta"}
    /\ LET c == Head(gd_todo)
           definition == ResolveDefinition(meta, c)
           entry == IF definition.kind = "raise" THEN definition
                    ELSE NamesAndUnits(meta, c, definition.value)
       IN IF entry.kind = "raise"
          THEN /\ gd_out' = entry
               /\ gd_pc' = "done"
               /\ UNCHANGED <<names_and_units, gd_todo>>
          ELSE /\ names_and_units' = SetItem(names_and_units, c, entry.value)
               /\ gd_todo' = Tail(gd_todo)
               /\ gd_pc' = IF Tail(gd_todo) = <<>> THEN "check_status" ELSE "resolve"
               /\ UNCHANGED gd_out
    /\ UNCHANGED <<resp, data, meta, gd_rest>>

\* lines 156-159
CheckStatus ==
    /\ gd_pc = "check_status"
    /\ IF resp.status_code > 399
       THEN /\ gd_out' = Return(<<[error |-> resp.text], resp.status_code>>)
            /\ gd_pc' = "done"
       ELSE /\ gd_pc' = "assemble"
            /\ UNCHANGED gd_out
    /\ UNCHANGED <<resp, data, meta, names_and_units, gd_todo, gd_calls, gd_rest>>

\* lines 160-164
AssembleResponse ==
    /\ gd_pc = "assemble"
    /\ gd_calls' = gd_calls \cup {"dataframe_to_covjson"}
    /\ gd_out' =
          IF dataframe_to_covjson(data, names_and_units).kind = "raise"
          THEN dataframe_to_covjson(data, names_and_units)
          ELSE Return(<<dataframe_to_covjson(data, names_and_units).value, 200>>)
    /\ gd_pc' = "done"
    /\ UNCHANGED <<resp, data, meta, names_and_units, gd_todo, gd_rest>>

GetDataNext ==
    \/ FetchData
    \/ ParseData
    \/ FetchMeta
    \/ ParseMeta
    \/ ResolveColumn
    \/ CheckStatus
    \/ AssembleResponse

GetDataSpec == GetDataInit /\ [][GetDataNext]_vars

UrnSpec == UrnInit /\ [][GetDataNext]_vars

(***************************************************************************)
(* ErddapDownloader.get_dataset_dict(), lines 102-109, called by the       *)
(* threads of the server (app.run serves each request on its own thread)   *)
(***************************************************************************)
Threads == {"t1", "t2"}

DatasetIds == {"d1", "d2"}

\* self.url
BaseUrl == "http://localhost:5000/geo2coverage/v1.0"

\* the "Dataset ID" column of the listings the server may answer with
Listings(n) == SeqsUpTo(DatasetIds, n)

\* df["Dataset ID"].loc[1:]: the rows from label 1 on
FromLabelOne(column) == IF column = <<>> THEN <<>> ELSE Tail(column)

\* line 107: the dict comprehension; a key met again keeps its place
RECURSIVE DictOf(_, _)
DictOf(ids, acc) ==
    IF ids = <<>> THEN acc
    ELSE IF Head(ids) \in Range(Keys(acc)) THEN DictOf(Tail(ids), acc)
    ELSE DictOf(Tail(ids), Append(acc, <<Head(ids), BaseUrl \o "/" \o Head(ids)>>))

\* line 103; dataset_dict_t = 0 stands for None, as false as 0 is
NeedsRefresh == dataset_dict_t = 0 \/ (now - dataset_dict_t) > cache_time

CatalogInit ==
    /\ now = 1
    /\ ticks = 0
    /\ upstream \in Listings(MaxListing)
    /\ dataset_dict = <<>>
    /\ dataset_dict_t = 0
    /\ th_pc = [t \in Threads |-> "idle"]
    /\ th_df = [t \in Threads |-> <<>>]
    /\ th_ret = [t \in Threads |-> <<>>]
    /\ refreshed_at = 0
    /\ CovIdle
    /\ GvIdle
    /\ GdIdle

cat_rest == <<cov_vars, gv_vars, gd_vars>>

\* a request for /datasets arrives: line 230
Call(t) ==
    /\ th_pc[t] = "idle"
    /\ th_pc' = [th_pc EXCEPT ![t] = "check"]
    /\ UNCHANGED <<now, ticks, upstream, dataset_dict, dataset_dict_t, th_df, th_ret,
                   refreshed_at, cat_rest>>

\* line 103
Check(t) ==
    /\ th_pc[t] = "check"
    /\ th_pc' = [th_pc EXCEPT ![t] = IF NeedsRefresh THEN "fetch" ELSE "return"]
    /\ UNCHANGED <<now, ticks, upstream, dataset_dict, dataset_dict_t, th_df, th_ret,
                   refreshed_at, cat_rest>>

\* lines 104-106: the listing is read from the server
Fetch(t) ==
    /\ th_pc[t] = "fetch"
    /\ th_df' = [th_df EXCEPT ![t] = upstream]
    /\ th_pc' = [th_pc EXCEPT ![t] = "store"]
    /\ UNCHANGED <<now, ticks, upstream, dataset_dict, dataset_dict_t, th_ret,
                   refreshed_at, cat_rest>>

\* lines 107-108: self.dataset_dict is rebuilt; self.dataset_dict_t is left as it is
Store(t) ==
    /\ th_pc[t] = "store"
    /\ dataset_dict' = DictOf(FromLabelOne(th_df[t]), <<>>)
    /\ refreshed_at' = now
    /\ th_pc' = [th_pc EXCEPT ![t] = "return"]
    /\ UNCHANGED <<now, ticks, upstream, dataset_dict_t, th_df, th_ret, cat_rest>>

\* line 109
ReturnDict(t) ==
    /\ th_pc[t] = "return"
    /\ th_ret' = [th_ret EXCEPT ![t] = dataset_dict]
    /\ th_df' = [th_df EXCEPT ![t] = <<>>]
    /\ th_pc' = [th_pc EXCEPT ![t] = "idle"]
    /\ UNCHANGED <<now, ticks, upstream, dataset_dict, dataset_dict_t, refreshed_at,
                   cat_rest>>

\* time.time() moves on, by a second or by the whole cache_time
Tick ==
    /\ ticks < MaxTicks
    /\ \E d \in {1, cache_time} : now' = now + d
    /\ ticks' = ticks + 1
    /\ UNCHANGED <<upstream, dataset_dict, dataset_dict_t, th_pc, th_df, th_ret,
                   refreshed_at, cat_rest>>

\* the server's listing changes
UpstreamChanges ==
    /\ \E l \in Listings(MaxListing) \ {upstream} : upstream' = l
    /\ UNCHANGED <<now, ticks, dataset_dict, dataset_dict_t, th_pc, th_df, th_ret,
                   refreshed_at, cat_rest>>

CatalogNext ==
    \/ \E t \in Threads : Call(t)
    \/ \E t \in Threads : Check(t)
    \/ \E t \in Threads : Fetch(t)
    \/ \E t \in Threads : Store(t)
    \/ \E t \in Threads : ReturnDict(t)
    \/ Tick
    \/ UpstreamChanges

CatalogSpec == CatalogInit /\ [][CatalogNext]_vars

\* one caller: each call ends before the next begins
SequentialNext ==
    \/ Call("t1")
    \/ Check("t1")
    \/ Fetch("t1")
    \/ Store("t1")
    \/ ReturnDict("t1")
    \/ Tick
    \/ UpstreamChanges

SequentialSpec == CatalogInit /\ [][SequentialNext]_vars

(***************************************************************************)
(* Claims about dataframe_to_covjson, checked under CovSpec                *)
(***************************************************************************)
CovDoc == cov_out.value

InputTimes == Column(cov_df, "time")

\* C3: in every document dataframe_to_covjson returns, each variable's values
\* list is as long as its shape[0] says and as long as the t axis, which has
\* one value per distinct time of the input.
C3_ShapeInvariant ==
    cov_out.kind = "return" =>
        /\ Len(CovDoc.domain.axes.t.values) = Cardinality(Range(InputTimes))
        /\ \A k \in 1..Len(CovDoc.ranges) :
              /\ Len(CovDoc.ranges[k][2].values) = CovDoc.ranges[k][2].shape[1]
              /\ CovDoc.ranges[k][2].shape[1] = Len(CovDoc.domain.axes.t.values)

\* a document with two variables was assembled from a table that repeats a time
C3_Witness ==
    /\ cov_out.kind = "return"
    /\ Len(CovDoc.ranges) = 2
    /\ Len(cov_df.rows) = 3
    /\ Len(CovDoc.domain.axes.t.values) = 2

\* C6: the t axis holds every distinct time of the input exactly once, in
\* order of first occurrence, and the range value at position i is the value
\* of the first input row that carries the i-th distinct time.
C6_FirstOccurrenceKept ==
    cov_out.kind = "return" =>
        LET tv == CovDoc.domain.axes.t.values
        IN /\ \A i, j \in 1..Len(tv) : i # j => tv[i] # tv[j]
           /\ Range(tv) = Range(InputTimes)
           /\ \A i, j \in 1..Len(tv) :
                 i < j => ColIndex(InputTimes, tv[i]) < ColIndex(InputTimes, tv[j])
           /\ \A k \in 1..Len(CovDoc.ranges), i \in 1..Len(tv) :
                 CovDoc.ranges[k][2].values[i] =
                    cov_df.rows[ColIndex(InputTimes, tv[i])]
                               [ColIndex(cov_df.columns, CovDoc.ranges[k][1])]

\* the first time comes back in the third row with another TEMP, after a
\* second time in between
C6_Witness ==
    /\ cov_out.kind = "return"
    /\ Len(cov_df.rows) = 3
    /\ InputTimes[1] = InputTimes[3]
    /\ InputTimes[1] # InputTimes[2]
    /\ Column(cov_df, "TEMP")[1] # Column(cov_df, "TEMP")[3]
    /\ Len(CovDoc.domain.axes.t.values) = 2

\* C10: assembling from the table deduplicated by time gives the same outcome,
\* the same document with the same axes, ranges and spatial point, as
\* assembling from the original table.
C10_DedupIdempotent ==
    cov_pc = "done" => cov_out_dedup = cov_out

\* both were assembled from a table whose duplicate rows change the mean latitude
C10_Witness ==
    /\ cov_pc = "done"
    /\ cov_out.kind = "return"
    /\ cov_out_dedup.kind = "return"
    /\ Len(cov_df.rows) > Len(CovDoc.domain.axes.t.values)
    /\ Cardinality(Positions(cov_df.columns, "latitude")) = 1
    /\ Mean(Column(cov_df, "latitude")) # CovDoc.domain.axes.y.values[1]

(***************************************************************************)
(* Claims about get_value_from_meta, checked under LookupSpec              *)
(***************************************************************************)
\* the rows of the frame that match (varname, attr_name), in order
Matching ==
    {i \in 1..Len(gv_df.rows) :
        gv_df.rows[i][1] = gv_varname /\ gv_df.rows[i][2] = gv_attr_name}

FirstMatching == CHOOSE i \in Matching : \A j \in Matching : i <= j

\* C7: get_value_from_meta returns the Value of the matching row when one
\* exists, and exactly the supplied default when none does; the call never
\* raises.
C7_AsStated ==
    gv_pc = "done" =>
        /\ gv_out.kind = "return"
        /\ Matching # {} => gv_out.value = gv_df.rows[FirstMatching][3]
        /\ Matching = {} => gv_out.value = gv_alternative

\* a lookup that found no row fell back on a column name
C7_Witness ==
    /\ gv_pc = "done"
    /\ Matching = {}
    /\ Len(gv_df.rows) = 2
    /\ gv_alternative = PyStr("TEMP")
    /\ gv_out.value = PyStr("TEMP")

(***************************************************************************)
(* Claims about get_data, checked under GetDataSpec and UrnSpec            *)
(***************************************************************************)
\* the payload and the status code get_data returned
Payload == gd_out.value[1]

StatusCode == gd_out.value[2]

\* C1: when the tabledap fetch answers with a status of 400 or more, get_data
\* returns ({"error": body of that answer}, status of that answer) and calls
\* neither get_value_from_meta nor dataframe_to_covjson.
C1_DataFailureShortCircuits ==
    (gd_pc = "done" /\ data_resp.status_code >= 400) =>
        /\ gd_out = Return(<<[error |-> data_resp.text], data_resp.status_code>>)
        /\ gd_calls = {}

\* both endpoints answered 200 with a table
BothFetchesFine ==
    /\ data_resp.status_code = 200
    /\ meta_resp.status_code = 200
    /\ data_resp.json.kind = "table"
    /\ meta_resp.json.kind = "table"

\* the data table has rows and the three positional columns
DataTableFine ==
    /\ data_resp.json.rows # <<>>
    /\ Positional \subseteq Range(data_resp.json.columnNames)

\* the sdn_parameter_urn rows of the info answer for column c
UrnRows(c) ==
    {i \in 1..Len(meta_resp.json.rows) :
        /\ meta_resp.json.rows[i][1] = c
        /\ meta_resp.json.rows[i][2] = "sdn_parameter_urn"}

\* column c has a urn that is not empty and is not one of the well-formed samples
Malformed(c) ==
    \E i \in UrnRows(c) : meta_resp.json.rows[i][3] = PyStr("P01:TEMPPR01")

WellFormed(c) ==
    \E i \in UrnRows(c) : meta_resp.json.rows[i][3].s \in
                              {"SDN:P01::TEMPPR01", "SDN:P01::PSLTZZ01"}

\* C4: a urn that is not empty and has not exactly 4 segments does not fail the
\* request: get_data returns a coverage document with status 200 in which that
\* variable's observedProperty.id is empty, and the other variables are resolved.
C4_MalformedUrnNotFatal ==
    (gd_pc = "done" /\ BothFetchesFine /\ DataTableFine
        /\ \E c \in Range(data_resp.json.columnNames) : Malformed(c)) =>
        /\ gd_out.kind = "return"
        /\ StatusCode = 200
        /\ \A k \in 1..Len(Payload.parameters) :
              LET c == Payload.parameters[k][1]
                  id == Payload.parameters[k][2].observedProperty.id
              IN /\ Malformed(c) => id = PyStr("")
                 /\ WellFormed(c) => id.s # ""

\* C9: when the fetched data table is empty or has no time column, get_data
\* returns a JSON error object with a status other than 200: no document with
\* status 200, no exception.  (Stated for calls whose two fetches answered 200
\* with a table and whose urns are well formed, so that nothing else fails the
\* request.)
C9_EmptyTableRejected ==
    (gd_pc = "done" /\ BothFetchesFine
        /\ (\A c \in Range(data_resp.json.columnNames) : ~Malformed(c))
        /\ (data_resp.json.rows = <<>> \/ "time" \notin Range(data_resp.json.columnNames))) =>
        /\ gd_out.kind = "return"
        /\ StatusCode # 200
        /\ DOMAIN Payload = {"error"}

\* the definition get_data resolved for column TEMP
TempDefinition == Get(names_and_units, "TEMP").definition

\* C8: a urn s1:s2:s3:s4 resolves to
\* http://vocab.nerc.ac.uk/collection/{s2}/current/{s4}/ for the column, and
\* that is the observedProperty.id of the document get_data returns.
C8_VocabularyUri ==
    Len(urn_parts) = 4 =>
        LET uri == PyStr("http://vocab.nerc.ac.uk/collection/" \o urn_parts[2]
                         \o "/current/" \o urn_parts[4] \o "/")
        IN /\ "TEMP" \in Range(Keys(names_and_units)) => TempDefinition = uri
           /\ gd_pc = "done" =>
                 /\ gd_out.kind = "return"
                 /\ StatusCode = 200
                 /\ Get(Payload.parameters, "TEMP").observedProperty.id = uri

\* a document came back for the urn a:b:b:a
C8_Witness ==
    /\ gd_pc = "done"
    /\ urn_parts = <<"a", "b", "b", "a">>
    /\ gd_out.kind = "return"
    /\ Get(Payload.parameters, "TEMP").observedProperty.id =
          PyStr("http://vocab.nerc.ac.uk/collection/b/current/a/")

\* the keys of d are exactly the columns of the fetched data table other than
\* time, latitude and longitude, each once, in the order of the table's columns
InColumnOrder(d) ==
    LET cols == data_resp.json.columnNames
        keys == Keys(d)
    IN /\ Range(keys) = Range(cols) \ {"time", "latitude", "longitude"}
       /\ \A i, j \in 1..Len(keys) :
             i < j => ColIndex(cols, keys[i]) < ColIndex(cols, keys[j])

\* C11: in every document get_data returns with status 200, the keys of
\* parameters and the keys of ranges are the columns of the fetched data table
\* other than time, latitude and longitude, listed in the table's column order.
C11_KeysFollowColumns ==
    (gd_pc = "done" /\ gd_out.kind = "return" /\ StatusCode = 200) =>
        /\ InColumnOrder(Payload.parameters)
        /\ InColumnOrder(Payload.ranges)
        /\ Keys(Payload.parameters) = Keys(Payload.ranges)

\* a document came back for a table whose two variables stand on either side
\* of the positional columns
C11_Witness ==
    /\ gd_pc = "done"
    /\ gd_out.kind = "return"
    /\ StatusCode = 200
    /\ data_resp.json.columnNames = <<"time", "TEMP", "latitude", "longitude", "PSAL">>
    /\ data_resp.json.rows # <<>>
    /\ Keys(Payload.parameters) = <<"TEMP", "PSAL">>
    /\ Keys(Payload.ranges) = <<"TEMP", "PSAL">>

(***************************************************************************)
(* Claims about get_dataset_dict, checked under CatalogSpec                *)
(***************************************************************************)
\* no refresh has completed yet, or the last one is more than cache_time ago
Stale == refreshed_at = 0 \/ (now - refreshed_at) > cache_time

\* C2: in a sequence of calls of get_dataset_dict, a call fetches the listing
\* if and only if it is the first call or more than cache_time seconds have
\* passed since the last refresh; otherwise it goes on to return the cached
\* mapping.  (Checked under SequentialSpec, one call after the other.)
C2_FetchOnlyWhenStale ==
    [][\A t \in Threads :
          (th_pc[t] = "check" /\ th_pc'[t] # "check") =>
              (th_pc'[t] = "fetch" <=> Stale)]_vars

\* the threads that are between the fetch of line 104 and the store of line 108
Refreshing == {t \in Threads : th_pc[t] \in {"fetch", "store"}}

\* C5: at most one refresh of the catalog is in flight at any time.
C5_OneRefreshInFlight == Cardinality(Refreshing) <= 1

====
